---- MODULE Spec2Model ----
(***************************************************************************)
(* Model of the extension-and-execution runtime of PyAI-IDE:               *)
(*   - CodeExecutor  (src/src/core/code_executor.py)                       *)
(*   - EventSystem   (src/src/core/event_system.py)                        *)
(* The executor is modelled at the granularity of the Python statements    *)
(* that touch the shared attributes self.is_running and self.process: the  *)
(* caller's (main) thread runs execute_python and stop_execution, each     *)
(* accepted execution runs _execute_python_thread on its own thread, and   *)
(* every child process runs on its own.  Signal emissions (the callbacks)  *)
(* and the signals sent to children are the labels of the steps: the       *)
(* variable last holds what the latest step emitted and sent.              *)
(***************************************************************************)
EXTENDS Integers, Sequences, FiniteSets, TLC

(* ---------------------------- bounds ----------------------------------- *)
\* number of execute_python calls that may be accepted (threads started)
MaxThreads == 2
\* number of writes (stdout lines or stderr chunks) one child makes
MaxWrites == 2
\* capacity of an operating-system pipe, in lines/chunks
PipeCap == 1

\* number of plugin objects load_plugin may instantiate
MaxLoads == 2
\* number of callbacks registered through PluginManager.register_hook
MaxGlobal == 2
\* number of shutdown() calls one plugin object may receive
MaxShutdowns == 1
\* number of callbacks that may raise during one trigger_hook
MaxRaises == 1
\* number of PluginManager calls made (by callbacks or by other threads)
\* while one trigger_hook is in progress
MaxReentrant == 1

\* number of subscribe calls
MaxSubs == 3
\* priorities range over 0..MaxPriority
MaxPriority == 1
\* EventSystem.max_history: the capacity of the history, scaled down from the
\* source's 1000
max_history == 2

None == 0
Threads == 1..MaxThreads
\* the caller's thread, as an emitter of signals
Main == 0

VARIABLES
    is_running,   \* CodeExecutor.is_running
    process,      \* CodeExecutor.process: None or the child the Popen object stands for
    wk,           \* per thread of _execute_python_thread: position and locals
    ch,           \* per child process: its state, pipes and pending signals
    mainpc,       \* the caller's thread: position inside stop_execution
    nthreads,     \* number of threads started (accepted executions)
    nfin,         \* per thread: how many times it has emitted execution_finished
    last          \* the latest step: the call made, the signals emitted, the signal sent

execVars == <<is_running, process, wk, ch, mainpc, nthreads, nfin, last>>

VARIABLES
    listeners,      \* EventSystem.listeners: event type -> list of EventListener
    event_history,  \* EventSystem.event_history: the recorded event types
    handles,        \* the EventListener objects subscribe has returned: id -> object
    em,             \* the emit call in progress: its loop position and results
    ret             \* what the latest EventSystem call returned

evVars == <<listeners, event_history, handles, em, ret>>

VARIABLES
    plugins,   \* PluginManager.plugins: the dict's entries, in insertion order
    hooks,     \* PluginManager.hooks: hook -> list of global callbacks
    insts,     \* the plugin objects instantiated so far: id -> object
    tr,        \* the trigger_hook call in progress: its loops' positions and results
    pret       \* what the latest PluginManager call did and returned

plugVars == <<plugins, hooks, insts, tr, pret>>
vars == <<execVars, evVars, plugVars>>

(* ------------------------- signal emissions ---------------------------- *)
\* k: which emission; by: emitting thread (Main = caller's thread);
\* c: the child the data came from (None = none); v: line number / exit code
Ev(k, by, c, v) == [k |-> k, by |-> by, c |-> c, v |-> v]

IsOutput(e)   == e.k \in {"hdr", "line", "tail", "term_msg", "kill_msg"}
IsError(e)    == e.k \in {"busy", "nofile", "stderr", "exc"}
IsFinished(e) == e.k = "finished"
IsStarted(e)  == e.k = "started"

\* a step's label. op: "execute" / "stop" for a call of execute_python /
\* stop_execution, the action's name for a later step of stop_execution,
\* "step" otherwise; ev: the emissions, in order; sig: the signal sent to a
\* child, <<name, child>>, or <<>>; exc: an exception left stop_execution
Label(o, e, s, x) == [op |-> o, ev |-> e, sig |-> s, exc |-> x]
Quiet == Label("step", <<>>, <<>>, FALSE)

NoWorker == [pc |-> "unborn", h |-> None, line |-> 0, got |-> 0]
NoChild  == [st |-> "none", pend |-> "none", nw |-> 0, nout |-> 0,
             outp |-> <<>>, errp |-> 0, term |-> FALSE, kill |-> FALSE,
             tsent |-> FALSE, code |-> 0]

InitExec ==
    /\ is_running = FALSE
    /\ process = None
    /\ wk = [w \in Threads |-> NoWorker]
    /\ ch = [c \in Threads |-> NoChild]
    /\ mainpc = [pc |-> "idle", h |-> None]
    /\ nthreads = 0
    /\ nfin = [w \in Threads |-> 0]
    /\ last = Label("init", <<>>, <<>>, FALSE)

(* ----------------------- the caller's thread --------------------------- *)
\* line 40 left out: execute_python without its single-flight test
Busy_NoTest == FALSE

\* line 40: the single-flight test of execute_python
Busy == is_running

\* lines 33-61: execute_python, run to its return on the caller's thread.
\* exists: whether Path(file_path).exists() holds.
execute_python(exists) ==
    /\ UNCHANGED <<evVars, plugVars>>
    /\ mainpc.pc = "idle"
    /\ IF Busy
       THEN /\ last' = Label("execute", <<Ev("busy", Main, None, 0)>>, <<>>, FALSE)
            /\ UNCHANGED <<is_running, process, wk, ch, nthreads>>
       ELSE IF ~exists
       THEN /\ last' = Label("execute", <<Ev("nofile", Main, None, 0)>>, <<>>, FALSE)
            /\ UNCHANGED <<is_running, process, wk, ch, nthreads>>
       ELSE /\ nthreads < MaxThreads
            /\ last' = Label("execute", <<Ev("started", Main, None, 0)>>, <<>>, FALSE)
            /\ is_running' = TRUE
            /\ nthreads' = nthreads + 1
            /\ wk' = [wk EXCEPT ![nthreads + 1].pc = "header"]
            /\ UNCHANGED <<process, ch>>
    /\ UNCHANGED <<mainpc, nfin>>

\* line 129 testing self.process alone
StopApplies_ProcessOnly == process # None

\* line 129: the test that guards the body of stop_execution
StopApplies == process # None /\ is_running

\* lines 127-129: stop_execution is called; it returns at once when the test fails
stop_execution ==
    /\ UNCHANGED <<evVars, plugVars>>
    /\ mainpc.pc = "idle"
    /\ IF StopApplies
       THEN mainpc' = [pc |-> "terminate", h |-> None]
       ELSE mainpc' = mainpc
    /\ last' = Label("stop", <<>>, <<>>, FALSE)
    /\ UNCHANGED <<is_running, process, wk, ch, nthreads, nfin>>

\* lines 137-139: the finally block of stop_execution
StopFinally ==
    /\ is_running' = FALSE
    /\ process' = None

\* self.process.<method> with self.process None: AttributeError, which no
\* except clause of stop_execution catches; the finally block runs and the
\* exception leaves stop_execution.
StopAttributeError ==
    /\ StopFinally
    /\ mainpc' = [pc |-> "idle", h |-> None]
    /\ last' = Label("raise", <<>>, <<>>, TRUE)
    /\ UNCHANGED <<wk, ch, nthreads, nfin>>

\* Popen.send_signal: polls first, and signals only a child that has not exited
Sent(c, s) == IF ch[c].st = "running" THEN <<s, c>> ELSE <<>>

Signalled(c, s) ==
    IF ch[c].st = "running"
    THEN [ch EXCEPT ![c].term = (@ \/ s = "term"), ![c].kill = (@ \/ s = "kill"),
                    ![c].tsent = (@ \/ s = "term")]
    ELSE ch

\* line 131: self.process.terminate()
stop_terminate ==
    /\ UNCHANGED <<evVars, plugVars>>
    /\ mainpc.pc = "terminate"
    /\ IF process = None
       THEN StopAttributeError
       ELSE /\ ch' = Signalled(process, "term")
            /\ mainpc' = [pc |-> "wait_eval", h |-> None]
            /\ last' = Label("terminate", <<>>, Sent(process, "term"), FALSE)
            /\ UNCHANGED <<is_running, process, wk, nthreads, nfin>>

\* line 132: self.process.wait(timeout=5), the attribute lookup
stop_wait_eval ==
    /\ UNCHANGED <<evVars, plugVars>>
    /\ mainpc.pc = "wait_eval"
    /\ IF process = None
       THEN StopAttributeError
       ELSE /\ mainpc' = [pc |-> "wait", h |-> process]
            /\ last' = Label("wait_eval", <<>>, <<>>, FALSE)
            /\ UNCHANGED <<is_running, process, wk, ch, nthreads, nfin>>

\* line 132: wait(timeout=5) returns: the child has exited within the interval
stop_wait_return ==
    /\ UNCHANGED <<evVars, plugVars>>
    /\ mainpc.pc = "wait"
    /\ ch[mainpc.h].st = "exited"
    /\ mainpc' = [pc |-> "fin_term", h |-> None]
    /\ last' = Label("wait_return", <<>>, <<>>, FALSE)
    /\ UNCHANGED <<is_running, process, wk, ch, nthreads, nfin>>

\* line 134: the wait expires with the child still running: TimeoutExpired
WaitExpires == ch[mainpc.h].st = "running"

stop_wait_timeout ==
    /\ UNCHANGED <<evVars, plugVars>>
    /\ mainpc.pc = "wait"
    /\ WaitExpires
    /\ mainpc' = [pc |-> "kill", h |-> None]
    /\ last' = Label("wait_timeout", <<>>, <<>>, FALSE)
    /\ UNCHANGED <<is_running, process, wk, ch, nthreads, nfin>>

\* line 135: self.process.kill(), inside the except clause
stop_kill ==
    /\ UNCHANGED <<evVars, plugVars>>
    /\ mainpc.pc = "kill"
    /\ IF process = None
       THEN StopAttributeError
       ELSE /\ ch' = Signalled(process, "kill")
            /\ mainpc' = [pc |-> "fin_kill", h |-> None]
            /\ last' = Label("kill", <<>>, Sent(process, "kill"), FALSE)
            /\ UNCHANGED <<is_running, process, wk, nthreads, nfin>>

\* lines 133 / 136, then 137-139: the message, the finally block, the return
stop_finish ==
    /\ UNCHANGED <<evVars, plugVars>>
    /\ mainpc.pc \in {"fin_term", "fin_kill"}
    /\ last' = Label("finish",
                     <<Ev(IF mainpc.pc = "fin_term" THEN "term_msg" ELSE "kill_msg", Main, None, 0)>>,
                     <<>>, FALSE)
    /\ StopFinally
    /\ mainpc' = [pc |-> "idle", h |-> None]
    /\ UNCHANGED <<wk, ch, nthreads, nfin>>

(* ------------------- _execute_python_thread (one per thread) ----------- *)
\* a thread's emissions, as the step's label
Emits(es) == last' = Label("step", es, <<>>, FALSE)

Finishes(w) == nfin' = [nfin EXCEPT ![w] = @ + 1]

\* lines 66-78: the three header lines, then self.process = subprocess.Popen(...):
\* the child starts and the attribute names it, or Popen raises OSError (spawn
\* failure: permission denied, invalid working directory), which line 100 catches
thread_spawn(w, ok) ==
    /\ UNCHANGED <<evVars, plugVars>>
    /\ wk[w].pc = "header"
    /\ Emits(<<Ev("hdr", w, None, 0)>>)
    /\ IF ok
       THEN /\ ch' = [ch EXCEPT ![w].st = "running"]
            /\ process' = w
            /\ wk' = [wk EXCEPT ![w].pc = "readline"]
       ELSE /\ UNCHANGED <<ch, process>>
            /\ wk' = [wk EXCEPT ![w].pc = "except"]
    /\ UNCHANGED <<is_running, mainpc, nthreads, nfin>>

\* lines 82, 89, 94: each of self.process.stdout / .stderr / .wait reads the
\* shared attribute anew; on None it raises AttributeError, which line 100
\* catches. Otherwise the thread holds that object (h) for the call it makes.
Lookup(w) == IF wk[w].h # None THEN wk[w].h ELSE process

\* line 82: self.process.stdout.readline() returns the next line of the pipe,
\* or '' at end-of-file (pipe empty and the child exited); it blocks otherwise,
\* holding the object it looked up
thread_readline(w) ==
    /\ UNCHANGED <<evVars, plugVars>>
    /\ wk[w].pc = "readline"
    /\ LET c == Lookup(w) IN
       IF c = None
       THEN /\ wk' = [wk EXCEPT ![w].pc = "except"]
            /\ ch' = ch
       ELSE IF ch[c].outp # <<>>
       THEN /\ wk' = [wk EXCEPT ![w].pc = "emit_line", ![w].h = c, ![w].line = Head(ch[c].outp)]
            /\ ch' = [ch EXCEPT ![c].outp = Tail(@)]
       ELSE IF ch[c].st = "exited"
       THEN /\ wk' = [wk EXCEPT ![w].pc = "read_stderr", ![w].h = None]
            /\ ch' = ch
       ELSE /\ wk[w].h = None
            /\ wk' = [wk EXCEPT ![w].h = c]
            /\ ch' = ch
    /\ last' = Quiet
    /\ UNCHANGED <<is_running, process, mainpc, nthreads, nfin>>

\* line 84: the line goes to the output callback
thread_emit_line(w) ==
    /\ UNCHANGED <<evVars, plugVars>>
    /\ wk[w].pc = "emit_line"
    /\ Emits(<<Ev("line", w, wk[w].h, wk[w].line)>>)
    /\ wk' = [wk EXCEPT ![w].pc = "readline", ![w].h = None, ![w].line = 0]
    /\ UNCHANGED <<is_running, process, ch, mainpc, nthreads, nfin>>

\* lines 89-91: self.process.stderr.read() takes what the pipe holds and
\* returns at end-of-file; a non-empty result goes to the error callback
thread_read_stderr(w) ==
    /\ UNCHANGED <<evVars, plugVars>>
    /\ wk[w].pc = "read_stderr"
    /\ LET c == Lookup(w) IN
       IF c = None
       THEN /\ wk' = [wk EXCEPT ![w].pc = "except"]
            /\ ch' = ch
            /\ last' = Quiet
       ELSE IF ch[c].st = "exited"
       THEN /\ IF wk[w].got + ch[c].errp > 0
               THEN Emits(<<Ev("stderr", w, c, wk[w].got + ch[c].errp)>>)
               ELSE last' = Quiet
            /\ ch' = [ch EXCEPT ![c].errp = 0]
            /\ wk' = [wk EXCEPT ![w].pc = "wait", ![w].h = None, ![w].got = 0]
       ELSE /\ wk[w].h = None \/ ch[c].errp > 0
            /\ wk' = [wk EXCEPT ![w].h = c, ![w].got = @ + ch[c].errp]
            /\ ch' = [ch EXCEPT ![c].errp = 0]
            /\ last' = Quiet
    /\ UNCHANGED <<is_running, process, mainpc, nthreads, nfin>>

\* lines 94-98: self.process.wait() returns the exit status; the two trailer
\* lines and execution_finished follow
thread_wait(w) ==
    /\ UNCHANGED <<evVars, plugVars>>
    /\ wk[w].pc = "wait"
    /\ LET c == Lookup(w) IN
       IF c = None
       THEN /\ wk' = [wk EXCEPT ![w].pc = "except"]
            /\ last' = Quiet
            /\ nfin' = nfin
       ELSE IF ch[c].st = "exited"
       THEN /\ Emits(<<Ev("tail", w, c, ch[c].code), Ev("finished", w, c, ch[c].code)>>)
            /\ Finishes(w)
            /\ wk' = [wk EXCEPT ![w].pc = "finally1", ![w].h = None]
       ELSE /\ wk[w].h = None
            /\ wk' = [wk EXCEPT ![w].h = c]
            /\ last' = Quiet
            /\ nfin' = nfin
    /\ UNCHANGED <<is_running, process, ch, mainpc, nthreads>>

\* the except clause without line 102: the error is reported, finished is not fired
thread_except_NoFinished(w) ==
    /\ UNCHANGED <<evVars, plugVars>>
    /\ wk[w].pc = "except"
    /\ Emits(<<Ev("exc", w, None, 0)>>)
    /\ wk' = [wk EXCEPT ![w].pc = "finally1", ![w].h = None, ![w].got = 0]
    /\ UNCHANGED <<is_running, process, ch, mainpc, nthreads, nfin>>

\* lines 100-102: the except clause
thread_except(w) ==
    /\ UNCHANGED <<evVars, plugVars>>
    /\ wk[w].pc = "except"
    /\ Emits(<<Ev("exc", w, None, 0), Ev("finished", w, None, -1)>>)
    /\ Finishes(w)
    /\ wk' = [wk EXCEPT ![w].pc = "finally1", ![w].h = None, ![w].got = 0]
    /\ UNCHANGED <<is_running, process, ch, mainpc, nthreads>>

\* line 104: finally, self.is_running = False
thread_finally1(w) ==
    /\ UNCHANGED <<evVars, plugVars>>
    /\ wk[w].pc = "finally1"
    /\ is_running' = FALSE
    /\ wk' = [wk EXCEPT ![w].pc = "finally2"]
    /\ last' = Quiet
    /\ UNCHANGED <<process, ch, mainpc, nthreads, nfin>>

\* line 105: finally, self.process = None; the thread ends
thread_finally2(w) ==
    /\ UNCHANGED <<evVars, plugVars>>
    /\ wk[w].pc = "finally2"
    /\ process' = None
    /\ wk' = [wk EXCEPT ![w].pc = "done"]
    /\ last' = Quiet
    /\ UNCHANGED <<is_running, ch, mainpc, nthreads, nfin>>

(* --------------------------- the child process ------------------------- *)
ChFrame == <<is_running, process, wk, mainpc, nthreads, nfin>>

Room(c, s) == IF s = "o" THEN Len(ch[c].outp) < PipeCap ELSE ch[c].errp < PipeCap

\* what a completed write leaves in the pipe
Written(c, s) ==
    IF s = "o"
    THEN [ch EXCEPT ![c].nout = @ + 1, ![c].outp = Append(@, ch[c].nout + 1), ![c].pend = "none"]
    ELSE [ch EXCEPT ![c].errp = @ + 1, ![c].pend = "none"]

\* the child writes a line to stdout ("o") or a chunk to stderr ("e"); the
\* write blocks while the pipe is full
child_write(c, s) ==
    /\ UNCHANGED <<evVars, plugVars>>
    /\ ch[c].st = "running"
    /\ ch[c].pend = "none"
    /\ ch[c].nw < MaxWrites
    /\ IF Room(c, s)
       THEN ch' = [Written(c, s) EXCEPT ![c].nw = @ + 1]
       ELSE ch' = [ch EXCEPT ![c].nw = @ + 1, ![c].pend = s]
    /\ last' = Quiet
    /\ UNCHANGED ChFrame

\* a blocked write completes once the reader has made room
child_unblock(c) ==
    /\ UNCHANGED <<evVars, plugVars>>
    /\ ch[c].st = "running"
    /\ ch[c].pend # "none"
    /\ Room(c, ch[c].pend)
    /\ ch' = Written(c, ch[c].pend)
    /\ last' = Quiet
    /\ UNCHANGED ChFrame

\* the exit statuses a child returns on its own
ExitCodes == {0}

\* the child's record once it has exited with status code
Exited(c, code) ==
    [ch EXCEPT ![c].st = "exited", ![c].code = code, ![c].pend = "none",
               ![c].term = FALSE, ![c].kill = FALSE, ![c].tsent = FALSE,
               ![c].nw = 0, ![c].nout = 0]

\* the child exits on its own
child_exit(c, code) ==
    /\ UNCHANGED <<evVars, plugVars>>
    /\ ch[c].st = "running"
    /\ ch[c].pend = "none"
    /\ ch' = Exited(c, code)
    /\ last' = Quiet
    /\ UNCHANGED ChFrame

\* SIGTERM is delivered: the child dies of it (status -15), or has a handler
\* that ignores it (obey = FALSE)
child_sigterm(c, obey) ==
    /\ UNCHANGED <<evVars, plugVars>>
    /\ ch[c].st = "running"
    /\ ch[c].term
    /\ IF obey
       THEN ch' = Exited(c, -15)
       ELSE ch' = [ch EXCEPT ![c].term = FALSE]
    /\ last' = Quiet
    /\ UNCHANGED ChFrame

\* SIGKILL is delivered: the child dies (status -9)
child_sigkill(c) ==
    /\ UNCHANGED <<evVars, plugVars>>
    /\ ch[c].st = "running"
    /\ ch[c].kill
    /\ ch' = Exited(c, -9)
    /\ last' = Quiet
    /\ UNCHANGED ChFrame

(* ============================ EventSystem =============================== *)
EventTypes == {"a", "b"}
Priorities == 0..MaxPriority
\* the positional arguments of an emit call
Args == {0, 1}
\* event_type=None, the default of get_event_history
AnyType == "None"

\* an EventListener object; id stands for the object's identity, and grows
\* with the order of the subscribe calls
Listener(id, t, p) == [id |-> id, event_type |-> t, priority |-> p]

\* the ids of a list of listeners
Ids(s) == [i \in 1..Len(s) |-> s[i].id]

\* the emit call in progress. t, args: its arguments; idx: the position of
\* the for loop's iterator in self.listeners[t] (0: line 102 found no list
\* and there is no loop); called: the listeners called
\* so far; results: the local list of results; snap: the listeners of t when
\* the call began; dirty: the list has been changed since
NoEmit == [active |-> FALSE, t |-> "a", args |-> 0, idx |-> 0, called |-> <<>>,
           results |-> <<>>, dirty |-> FALSE, snap |-> <<>>]

\* what the latest call did. For "emit": called = the listeners called, in
\* order, results = the list returned. For "emit_call" (one listener call):
\* called = <<the listener>>, results = <<the arguments it was passed>>,
\* ok = the callback returned (did not raise). For "unsubscribe": called =
\* <<the listener passed>>, ok = the value returned. For "emit_begin":
\* results = the records _record_event dropped from the history.
Ret(o, t, called, results, ok, dirty) ==
    [op |-> o, t |-> t, called |-> called, results |-> results, ok |-> ok, dirty |-> dirty]

InitEvents ==
    /\ listeners = [t \in EventTypes |-> <<>>]
    /\ event_history = <<>>
    /\ handles = <<>>
    /\ em = NoEmit
    /\ ret = Ret("init", "a", <<>>, <<>>, TRUE, FALSE)

\* the comparison turned round: lower priority first
Lt_LowerFirst(a, b) == a.priority < b.priority

\* lines 25-27: EventListener.__lt__
Lt(a, b) == a.priority > b.priority

\* list.sort() compares with __lt__ alone and is stable: each element goes
\* before the first element it is less than
RECURSIVE InsertSorted(_, _)
InsertSorted(x, s) ==
    IF s = <<>> THEN <<x>>
    ELSE IF Lt(x, Head(s)) THEN <<x>> \o s
    ELSE <<Head(s)>> \o InsertSorted(x, Tail(s))

RECURSIVE Sort(_)
Sort(s) ==
    IF s = <<>> THEN <<>>
    ELSE InsertSorted(s[Len(s)], Sort(SubSeq(s, 1, Len(s) - 1)))

\* list.remove(x) with listeners comparing equal when their priorities are
RECURSIVE Remove_SamePriority(_, _)
Remove_SamePriority(s, x) ==
    IF s = <<>> THEN <<>>
    ELSE IF Head(s).priority = x.priority THEN Tail(s)
    ELSE <<Head(s)>> \o Remove_SamePriority(Tail(s), x)

\* list.remove(x): the list without its first element that is x
RECURSIVE Remove(_, _)
Remove(s, x) ==
    IF s = <<>> THEN <<>>
    ELSE IF Head(s) = x THEN Tail(s)
    ELSE <<Head(s)>> \o Remove(Tail(s), x)

InList(s, x) == \E i \in 1..Len(s) : s[i] = x

\* the emit in progress iterates the very list that subscribe and unsubscribe
\* change: dirty records that the list changed under it
Touched(t) == IF em.active /\ em.t = t THEN [em EXCEPT !.dirty = TRUE] ELSE em

\* lines 41-61: subscribe
subscribe(t, p) ==
    /\ Len(handles) < MaxSubs
    /\ LET listener == Listener(Len(handles) + 1, t, p) IN
       /\ listeners' = [listeners EXCEPT ![t] = Sort(Append(@, listener))]
       /\ handles' = Append(handles, listener)
       /\ ret' = Ret("subscribe", t, <<>>, <<>>, TRUE, FALSE)
    /\ em' = Touched(t)
    /\ UNCHANGED event_history
    /\ UNCHANGED <<execVars, plugVars>>

\* lines 63-82: unsubscribe
unsubscribe(id) ==
    /\ id \in 1..Len(handles)
    /\ LET listener == handles[id]
           t == listener.event_type IN
       IF InList(listeners[t], listener)
       THEN /\ listeners' = [listeners EXCEPT ![t] = Remove(@, listener)]
            /\ ret' = Ret("unsubscribe", t, <<id>>, <<>>, TRUE, FALSE)
            /\ em' = Touched(t)
       ELSE /\ ret' = Ret("unsubscribe", t, <<id>>, <<>>, FALSE, FALSE)
            /\ UNCHANGED <<listeners, em>>
    /\ UNCHANGED <<event_history, handles>>
    /\ UNCHANGED <<execVars, plugVars>>

\* lines 129-131 keeping the oldest records instead of the newest
Recorded_KeepsOldest(e) ==
    LET h == Append(event_history, e) IN
    IF Len(h) > max_history THEN SubSeq(h, 1, max_history) ELSE h

\* lines 112-131: _record_event
Recorded(e) ==
    LET h == Append(event_history, e) IN
    IF Len(h) > max_history THEN SubSeq(h, Len(h) - max_history + 1, Len(h)) ELSE h

\* line 131: the records the trim drops
Dropped(e) ==
    LET h == Append(event_history, e) IN
    IF Len(h) > max_history THEN SubSeq(h, 1, Len(h) - max_history) ELSE <<>>

\* lines 133-146: get_event_history
get_event_history(event_type) ==
    IF event_type = AnyType THEN event_history
    ELSE SelectSeq(event_history, LAMBDA e : e.type = event_type)

\* line 102: event_type in self.listeners; subscribe creates the key and
\* nothing modelled here removes it
HasKey(t) == \E id \in 1..Len(handles) : handles[id].event_type = t

\* lines 96-103: emit records the event and, when the event type has a list,
\* starts the loop over it
emit_begin(t, a) ==
    /\ ~em.active
    /\ event_history' = Recorded([type |-> t, args |-> a])
    /\ em' = [active |-> TRUE, t |-> t, args |-> a, idx |-> IF HasKey(t) THEN 1 ELSE 0,
              called |-> <<>>, results |-> <<>>, dirty |-> FALSE,
              snap |-> Ids(listeners[t])]
    /\ ret' = Ret("emit_begin", t, <<>>, Dropped([type |-> t, args |-> a]), TRUE, FALSE)
    /\ UNCHANGED <<listeners, handles>>
    /\ UNCHANGED <<execVars, plugVars>>

\* line 107 missing: the exception of a callback leaves emit
emit_call_Propagates(raises) ==
    /\ em.active
    /\ em.idx > 0
    /\ em.idx <= Len(listeners[em.t])
    /\ LET listener == listeners[em.t][em.idx] IN
       IF raises
       THEN /\ em' = NoEmit
            /\ ret' = Ret("emit", em.t, Append(em.called, listener.id), <<>>, FALSE, em.dirty)
       ELSE /\ em' = [em EXCEPT !.idx = @ + 1,
                                 !.called = Append(@, listener.id),
                                 !.results = Append(@, listener.id)]
            /\ ret' = Ret("emit_call", em.t, <<listener.id>>, <<em.args>>, TRUE, FALSE)
    /\ UNCHANGED <<listeners, event_history, handles>>
    /\ UNCHANGED <<execVars, plugVars>>

\* line 106 moved after the try statement: a failed call leaves an entry too
emit_call_AppendsAlways(raises) ==
    /\ em.active
    /\ em.idx > 0
    /\ em.idx <= Len(listeners[em.t])
    /\ LET listener == listeners[em.t][em.idx] IN
       /\ em' = [em EXCEPT !.idx = @ + 1,
                           !.called = Append(@, listener.id),
                           !.results = Append(@, IF raises THEN None ELSE listener.id)]
       /\ ret' = Ret("emit_call", em.t, <<listener.id>>, <<em.args>>, ~raises, FALSE)
    /\ UNCHANGED <<listeners, event_history, handles>>
    /\ UNCHANGED <<execVars, plugVars>>

\* line 105 calling listener.callback() without the arguments
emit_call_NoArgs(raises) ==
    /\ em.active
    /\ em.idx > 0
    /\ em.idx <= Len(listeners[em.t])
    /\ LET listener == listeners[em.t][em.idx] IN
       /\ em' = [em EXCEPT !.idx = @ + 1,
                           !.called = Append(@, listener.id),
                           !.results = IF raises THEN @ ELSE Append(@, listener.id)]
       /\ ret' = Ret("emit_call", em.t, <<listener.id>>, <<>>, ~raises, FALSE)
    /\ UNCHANGED <<listeners, event_history, handles>>
    /\ UNCHANGED <<execVars, plugVars>>

\* lines 103-108: one turn of the loop: the listener at the iterator's
\* position is called with the arguments of the emit; its result (the
\* listener's id stands for the value its callback returns) is appended
\* unless the call raises (the callback raises, or is not callable: TypeError)
emit_call(raises) ==
    /\ em.active
    /\ em.idx > 0
    /\ em.idx <= Len(listeners[em.t])
    /\ LET listener == listeners[em.t][em.idx] IN
       /\ em' = [em EXCEPT !.idx = @ + 1,
                           !.called = Append(@, listener.id),
                           !.results = IF raises THEN @ ELSE Append(@, listener.id)]
       /\ ret' = Ret("emit_call", em.t, <<listener.id>>, <<em.args>>, ~raises, FALSE)
    /\ UNCHANGED <<listeners, event_history, handles>>
    /\ UNCHANGED <<execVars, plugVars>>

\* line 110: the loop is over; emit returns the results
emit_return ==
    /\ em.active
    /\ (em.idx = 0 \/ em.idx > Len(listeners[em.t]))
    /\ ret' = Ret("emit", em.t, em.called, em.results, TRUE, em.dirty)
    /\ em' = NoEmit
    /\ UNCHANGED <<listeners, event_history, handles>>
    /\ UNCHANGED <<execVars, plugVars>>

(* ============================ PluginManager ============================= *)
\* two members of the enumeration PluginHook
Hooks == {"ON_STARTUP", "ON_SHUTDOWN"}
\* the names plugin objects give themselves (BasePlugin.name)
PluginNames == {"p", "q"}
\* the host application, as the owner of a callback
Host == 0

\* a callback: owner is the plugin object whose code registered it (Host for
\* the application's own), fn tells the owner's callbacks apart. The value a
\* callback returns is modelled by the callback itself.
Callback(owner, fn) == [owner |-> owner, fn |-> fn]

\* the plugin files there are to load. classes: how many subclasses of
\* BasePlugin the module exposes; name: the name the object of the first of
\* them (in the order of inspect.getmembers) takes; body: what its
\* initialize() registers through its own register_hook, in order (one
\* callback; the same callback twice; three callbacks for two hooks); glob:
\* initialize() also registers a callback for ON_STARTUP through the manager's
\* register_hook
Once == <<[hook |-> "ON_STARTUP", fn |-> 1]>>
Twice == <<[hook |-> "ON_STARTUP", fn |-> 1], [hook |-> "ON_STARTUP", fn |-> 1]>>
TwoHooks == <<[hook |-> "ON_STARTUP", fn |-> 2], [hook |-> "ON_SHUTDOWN", fn |-> 1],
              [hook |-> "ON_STARTUP", fn |-> 1]>>
PluginFiles ==
    { [name |-> "p", body |-> Once, glob |-> FALSE, classes |-> 1],
      [name |-> "q", body |-> Twice, glob |-> FALSE, classes |-> 1],
      [name |-> "q", body |-> TwoHooks, glob |-> TRUE, classes |-> 1],
      [name |-> "p", body |-> TwoHooks, glob |-> TRUE, classes |-> 1],
      [name |-> "", body |-> <<>>, glob |-> FALSE, classes |-> 0],
      [name |-> "p", body |-> Once, glob |-> FALSE, classes |-> 2] }

\* lines 48 / 108: no hook has a list yet
NoHooks == [h \in Hooks |-> <<>>]

\* appending at the front instead of the end
Registered_Prepends(hs, hook, cb) == [hs EXCEPT ![hook] = <<cb>> \o @]

\* lines 72-82 and 200-210: register_hook appends the callback to the hook's
\* list, creating the list when there is none
Registered(hs, hook, cb) == [hs EXCEPT ![hook] = Append(@, cb)]

\* the hooks of plugin object i once its initialize() has run body
RECURSIVE Initialized(_, _)
Initialized(i, body) ==
    IF body = <<>> THEN NoHooks
    ELSE LET r == body[Len(body)] IN
         Registered(Initialized(i, SubSeq(body, 1, Len(body) - 1)), r.hook, Callback(i, r.fn))

\* lines 37-48: BasePlugin.__init__, followed by the registrations of initialize()
Plugin(i, name, body) ==
    [name |-> name, enabled |-> TRUE, hooks |-> Initialized(i, body), nshut |-> 0]

\* an entry of the dict self.plugins; Tomb is the slot of a deleted key, which
\* an iterator created before the deletion still passes over
Entry(name, i) == [name |-> name, inst |-> i]
Tomb == Entry("", None)
Live(s) == SelectSeq(s, LAMBDA e : e # Tomb)
LiveCount == Len(Live(plugins))

\* the position of name's entry in self.plugins, 0 when it has none
Slot(name) ==
    IF \E j \in 1..Len(plugins) : plugins[j].name = name
    THEN CHOOSE j \in 1..Len(plugins) : plugins[j].name = name
    ELSE 0

\* lines 248-258: get_plugin
get_plugin(name) == IF Slot(name) = 0 THEN None ELSE plugins[Slot(name)].inst

\* lines 84-94: get_hook_callbacks
get_hook_callbacks(i, hook) == insts[i].hooks[hook]

\* the trigger_hook call in progress. phase: "global" (loop of line 227) or
\* "plugins" (loops of lines 235-239); live: the global loop iterates the
\* hook's own list (FALSE: there was none, it iterates a fresh empty list);
\* cur: the plugin whose callbacks are iterated; i: position of the next
\* callback in the list iterated; pos, size, left: the dict iterator of line
\* 235 (next slot, size of the dict when it was created, elements still
\* expected); called, results: the callbacks called and the local results;
\* nraise: how many calls raised; nre: how many other calls of the manager
\* were made since the call began; dirty: one of them has changed the
\* registry, a hook list or an enabled flag
NoTrigger ==
    [active |-> FALSE, hook |-> "ON_STARTUP", phase |-> "global", live |-> FALSE,
     cur |-> None, i |-> 0, pos |-> 0, size |-> 0, left |-> 0,
     called |-> <<>>, results |-> <<>>, nraise |-> 0, nre |-> 0, dirty |-> FALSE]

\* what the latest call did. x: the name or hook passed; inst: the plugin
\* object concerned; ok: the value returned (load_plugin: an object was
\* returned; trigger_call: the callback returned); exc: an exception left
\* the call. For "trigger": called = the callbacks called, in order, results =
\* the list returned. For "trigger_call" and "register": called = <<the
\* callback>>. For "unload": results = <<what shutdown() did>>, empty when
\* shutdown() was not called. For "load": results = <<the number of
\* subclasses of BasePlugin the module exposes>>, empty when the module was
\* not executed.
PRet(o, x, i, called, results, ok, exc, dirty) ==
    [op |-> o, x |-> x, inst |-> i, called |-> called, results |-> results,
     ok |-> ok, exc |-> exc, dirty |-> dirty]

InitPlugins ==
    /\ plugins = <<>>
    /\ hooks = NoHooks
    /\ insts = <<>>
    /\ tr = NoTrigger
    /\ pret = PRet("init", "", None, <<>>, <<>>, TRUE, FALSE, FALSE)

\* another call of the manager may be made
CanCall == tr.active => tr.nre < MaxReentrant

\* the trigger in progress, after another call of the manager
Reentered == IF tr.active THEN [tr EXCEPT !.nre = @ + 1] ELSE tr

\* the trigger in progress, after a call that has changed something it iterates over
Disturbed == IF tr.active THEN [tr EXCEPT !.nre = @ + 1, !.dirty = TRUE] ELSE tr

\* the dict iterator of an active trigger_hook exists
Iterating == tr.active /\ tr.phase = "plugins"

GlobalCount == Len(hooks["ON_STARTUP"]) + Len(hooks["ON_SHUTDOWN"])

\* line 162 adding an entry even when the name has one
Stored_Appends(name, i) == Append(plugins, Entry(name, i))

\* line 162: self.plugins[plugin.name] = plugin. A name that has an entry
\* keeps its slot and gets the new object; a new name gets a new last slot.
Stored(name, i) ==
    IF Slot(name) # 0 THEN [plugins EXCEPT ![Slot(name)].inst = i]
    ELSE Append(plugins, Entry(name, i))

\* lines 110-169: load_plugin. name, body, glob, classes describe the plugin
\* file (see PluginFiles). outcome: "nofile" (line 122), "nospec" (line 132),
\* "init_false" (line 157), "init_raise" (caught at line 167) or "ok". Lines
\* 142-147 take the first subclass of BasePlugin found and leave the loop;
\* line 149 fails when there is none.
load_plugin(name, body, glob, classes, outcome) ==
    /\ UNCHANGED <<execVars, evVars>>
    /\ CanCall
    /\ IF outcome \in {"nofile", "nospec"}
       THEN /\ pret' = PRet("load", name, None, <<>>, <<>>, FALSE, FALSE, FALSE)
            /\ tr' = Reentered
            /\ UNCHANGED <<plugins, hooks, insts>>
       ELSE IF classes = 0
       THEN /\ pret' = PRet("load", name, None, <<>>, <<classes>>, FALSE, FALSE, FALSE)
            /\ tr' = Reentered
            /\ UNCHANGED <<plugins, hooks, insts>>
       ELSE LET i == Len(insts) + 1 IN
            /\ Len(insts) < MaxLoads
            /\ glob => GlobalCount < MaxGlobal
            /\ hooks' = IF glob THEN Registered(hooks, "ON_STARTUP", Callback(i, 0)) ELSE hooks
            /\ IF outcome = "ok"
               THEN /\ insts' = Append(insts, Plugin(i, name, body))
                    /\ plugins' = Stored(name, i)
                    /\ tr' = Disturbed
                    /\ pret' = PRet("load", name, i, <<>>, <<classes>>, TRUE, FALSE, FALSE)
               ELSE \* the object is dropped: nothing but the callbacks it
                    \* registered with the manager refers to it
                    /\ insts' = Append(insts, Plugin(i, name, <<>>))
                    /\ plugins' = plugins
                    /\ tr' = IF glob THEN Disturbed ELSE Reentered
                    /\ pret' = PRet("load", name, None, <<>>, <<classes>>, FALSE, FALSE, FALSE)

\* line 192: del self.plugins[plugin_name]
Deleted(name) ==
    IF Iterating THEN [plugins EXCEPT ![Slot(name)] = Tomb]
    ELSE Live([plugins EXCEPT ![Slot(name)] = Tomb])

\* lines 188-194 without the test of shutdown()'s result
Unloads_IgnoringResult(outcome) == outcome # "raise"

\* lines 188-194: the plugin is removed when shutdown() returns true
Unloads(outcome) == outcome = "ok"

\* lines 171-198: unload_plugin. outcome: what the plugin's shutdown() does:
\* "ok" (returns True), "false" (returns False) or "raise"
unload_plugin(name, outcome) ==
    /\ UNCHANGED <<execVars, evVars>>
    /\ CanCall
    /\ UNCHANGED hooks
    /\ IF Slot(name) = 0
       THEN /\ outcome = "ok"
            /\ pret' = PRet("unload", name, None, <<>>, <<>>, FALSE, FALSE, FALSE)
            /\ tr' = Reentered
            /\ UNCHANGED <<plugins, insts>>
       ELSE LET i == plugins[Slot(name)].inst IN
            /\ insts[i].nshut < MaxShutdowns
            /\ insts' = [insts EXCEPT ![i].nshut = @ + 1]
            /\ IF Unloads(outcome)
               THEN /\ plugins' = Deleted(name)
                    /\ tr' = Disturbed
                    /\ pret' = PRet("unload", name, i, <<>>, <<outcome>>, TRUE, FALSE, FALSE)
               ELSE /\ pret' = PRet("unload", name, i, <<>>, <<outcome>>, FALSE, FALSE, FALSE)
                    /\ tr' = Reentered
                    /\ UNCHANGED plugins

\* lines 200-210: PluginManager.register_hook, called by the host application
register_hook(hook, fn) ==
    /\ UNCHANGED <<execVars, evVars>>
    /\ CanCall
    /\ GlobalCount < MaxGlobal
    /\ hooks' = Registered(hooks, hook, Callback(Host, fn))
    /\ tr' = Disturbed
    /\ pret' = PRet("register", hook, None, <<Callback(Host, fn)>>, <<>>, TRUE, FALSE, FALSE)
    /\ UNCHANGED <<plugins, insts>>

\* lines 273 / 281 inverting the flag instead of setting it
SetEnabled_Toggles(o, name, flag) ==
    /\ UNCHANGED <<execVars, evVars>>
    /\ CanCall
    /\ LET i == get_plugin(name) IN
       IF i # None
       THEN /\ insts' = [insts EXCEPT ![i].enabled = ~@]
            /\ tr' = Disturbed
            /\ pret' = PRet(o, name, i, <<>>, <<>>, TRUE, FALSE, FALSE)
       ELSE /\ pret' = PRet(o, name, None, <<>>, <<>>, FALSE, FALSE, FALSE)
            /\ tr' = Reentered
            /\ UNCHANGED insts
    /\ UNCHANGED <<plugins, hooks>>

\* lines 269-283: enable_plugin (flag = TRUE) and disable_plugin (flag = FALSE)
SetEnabled(o, name, flag) ==
    /\ UNCHANGED <<execVars, evVars>>
    /\ CanCall
    /\ LET i == get_plugin(name) IN
       IF i # None
       THEN /\ insts' = [insts EXCEPT ![i].enabled = flag]
            /\ tr' = IF insts[i].enabled # flag THEN Disturbed ELSE Reentered
            /\ pret' = PRet(o, name, i, <<>>, <<>>, TRUE, FALSE, FALSE)
       ELSE /\ pret' = PRet(o, name, None, <<>>, <<>>, FALSE, FALSE, FALSE)
            /\ tr' = Reentered
            /\ UNCHANGED insts
    /\ UNCHANGED <<plugins, hooks>>

enable_plugin(name) == SetEnabled("enable", name, TRUE)

disable_plugin(name) == SetEnabled("disable", name, FALSE)

\* line 224, and line 227's self.hooks.get(hook, []): trigger_hook begins
trigger_begin(hook) ==
    /\ UNCHANGED <<execVars, evVars>>
    /\ ~tr.active
    /\ tr' = [NoTrigger EXCEPT !.active = TRUE, !.hook = hook, !.i = 1,
                               !.live = (hooks[hook] # <<>>)]
    /\ pret' = PRet("trigger_begin", hook, None, <<>>, <<>>, TRUE, FALSE, FALSE)
    /\ UNCHANGED <<plugins, hooks, insts>>

Upcoming(kind, phase, cur, i, pos, size, left) ==
    [kind |-> kind, phase |-> phase, cur |-> cur, i |-> i, pos |-> pos, size |-> size, left |-> left]

\* lines 236-239: the plugin is passed over when it is disabled, and has no
\* turn of the inner loop when it has no callback for the hook
Skipped(i, hook) == ~insts[i].enabled \/ get_hook_callbacks(i, hook) = <<>>

\* line 235: next() of the iterator of self.plugins.values(), repeated while
\* the plugin it yields is passed over. The iterator raises RuntimeError when
\* the dict's size is not the size it had when the iterator was created, or
\* when it finds an element after having yielded that many; it stops at the
\* end of the slots.
RECURSIVE Scan(_, _, _, _)
Scan(pos, size, left, hook) ==
    LET js == {j \in pos..Len(plugins) : plugins[j] # Tomb} IN
    IF LiveCount # size THEN Upcoming("error", "plugins", None, 0, pos, size, left)
    ELSE IF js = {} THEN Upcoming("stop", "plugins", None, 0, pos, size, left)
    ELSE IF left = 0 THEN Upcoming("error", "plugins", None, 0, pos, size, left)
    ELSE LET j == CHOOSE k \in js : \A m \in js : k <= m
             p == plugins[j].inst IN
         IF Skipped(p, hook) THEN Scan(j + 1, size, left - 1, hook)
         ELSE Upcoming("call", "plugins", p, 1, j + 1, size, left - 1)

\* lines 227-246: what trigger_hook does next: it calls the next callback of
\* the list it is iterating, or goes on to the next plugin, or returns, or
\* is left by the RuntimeError of the dict iterator
Ahead ==
    IF tr.phase = "global"
    THEN IF tr.live /\ tr.i <= Len(hooks[tr.hook])
         THEN Upcoming("call", "global", None, tr.i, 0, 0, 0)
         ELSE Scan(1, LiveCount, LiveCount, tr.hook)
    ELSE IF tr.i <= Len(get_hook_callbacks(tr.cur, tr.hook))
         THEN Upcoming("call", "plugins", tr.cur, tr.i, tr.pos, tr.size, tr.left)
         ELSE Scan(tr.pos, tr.size, tr.left, tr.hook)

\* the callback trigger_hook calls next
Target(u) ==
    IF u.phase = "global" THEN hooks[tr.hook][u.i]
    ELSE get_hook_callbacks(u.cur, tr.hook)[u.i]

\* lines 231 / 243 missing: the exception of a callback leaves trigger_hook
trigger_call_Propagates(raises) ==
    /\ UNCHANGED <<execVars, evVars>>
    /\ tr.active
    /\ Ahead.kind = "call"
    /\ raises => tr.nraise < MaxRaises
    /\ LET u == Ahead
           cb == Target(u) IN
       IF raises
       THEN /\ tr' = NoTrigger
            /\ pret' = PRet("trigger", tr.hook, None, Append(tr.called, cb), <<>>,
                            FALSE, TRUE, tr.dirty)
            /\ plugins' = Live(plugins)
       ELSE /\ tr' = [tr EXCEPT !.phase = u.phase, !.cur = u.cur, !.i = u.i + 1,
                                !.pos = u.pos, !.size = u.size, !.left = u.left,
                                !.called = Append(@, cb),
                                !.results = Append(@, cb)]
            /\ pret' = PRet("trigger_call", tr.hook, u.cur, <<cb>>, <<>>, TRUE, FALSE, FALSE)
            /\ plugins' = plugins
    /\ UNCHANGED <<hooks, insts>>

\* lines 228-232 and 240-244: one callback is called; its result is appended
\* unless the call raises
trigger_call(raises) ==
    /\ UNCHANGED <<execVars, evVars>>
    /\ tr.active
    /\ Ahead.kind = "call"
    /\ raises => tr.nraise < MaxRaises
    /\ LET u == Ahead
           cb == Target(u) IN
       /\ tr' = [tr EXCEPT !.phase = u.phase, !.cur = u.cur, !.i = u.i + 1,
                           !.pos = u.pos, !.size = u.size, !.left = u.left,
                           !.called = Append(@, cb),
                           !.results = IF raises THEN @ ELSE Append(@, cb),
                           !.nraise = IF raises THEN @ + 1 ELSE @]
       /\ pret' = PRet("trigger_call", tr.hook, u.cur, <<cb>>, <<>>, ~raises, FALSE, FALSE)
    /\ UNCHANGED <<plugins, hooks, insts>>

\* line 246: the loops are over; trigger_hook returns the results
trigger_return ==
    /\ UNCHANGED <<execVars, evVars>>
    /\ tr.active
    /\ Ahead.kind = "stop"
    /\ pret' = PRet("trigger", tr.hook, None, tr.called, tr.results, TRUE, FALSE, tr.dirty)
    /\ tr' = NoTrigger
    /\ plugins' = Live(plugins)
    /\ UNCHANGED <<hooks, insts>>

\* line 235: the RuntimeError of the dict iterator, raised outside the try
\* statements, leaves trigger_hook
trigger_error ==
    /\ UNCHANGED <<execVars, evVars>>
    /\ tr.active
    /\ Ahead.kind = "error"
    /\ pret' = PRet("trigger", tr.hook, None, tr.called, <<>>, FALSE, TRUE, tr.dirty)
    /\ tr' = NoTrigger
    /\ plugins' = Live(plugins)
    /\ UNCHANGED <<hooks, insts>>

(* --------------------------- specification ------------------------------ *)
MainStep ==
    \/ \E exists \in BOOLEAN : execute_python(exists)
    \/ stop_execution
    \/ stop_terminate
    \/ stop_wait_eval
    \/ stop_wait_return
    \/ stop_wait_timeout
    \/ stop_kill
    \/ stop_finish

ThreadStep(w) ==
    \/ \E ok \in BOOLEAN : thread_spawn(w, ok)
    \/ thread_readline(w)
    \/ thread_emit_line(w)
    \/ thread_read_stderr(w)
    \/ thread_wait(w)
    \/ thread_except(w)
    \/ thread_finally1(w)
    \/ thread_finally2(w)

ChildStep(c) ==
    \/ \E s \in {"o", "e"} : child_write(c, s)
    \/ child_unblock(c)
    \/ \E code \in ExitCodes : child_exit(c, code)
    \/ \E obey \in BOOLEAN : child_sigterm(c, obey)
    \/ child_sigkill(c)

NextExec ==
    \/ MainStep
    \/ \E w \in Threads : ThreadStep(w)
    \/ \E c \in Threads : ChildStep(c)

Init == InitExec /\ InitEvents /\ InitPlugins

SpecExec == Init /\ [][NextExec]_vars

NextEvents ==
    \/ \E t \in EventTypes, p \in Priorities : subscribe(t, p)
    \/ \E id \in 1..MaxSubs : unsubscribe(id)
    \/ \E t \in EventTypes, a \in Args : emit_begin(t, a)
    \/ \E raises \in BOOLEAN : emit_call(raises)
    \/ emit_return

SpecEvents == Init /\ [][NextEvents]_vars

NextPlugins ==
    \/ \E f \in PluginFiles, outcome \in {"nofile", "nospec", "init_false", "init_raise", "ok"} :
            load_plugin(f.name, f.body, f.glob, f.classes, outcome)
    \/ \E name \in PluginNames, outcome \in {"ok", "false", "raise"} :
            unload_plugin(name, outcome)
    \/ \E hook \in Hooks : register_hook(hook, 1)
    \/ \E name \in PluginNames : enable_plugin(name)
    \/ \E name \in PluginNames : disable_plugin(name)
    \/ \E hook \in Hooks : trigger_begin(hook)
    \/ \E raises \in BOOLEAN : trigger_call(raises)
    \/ trigger_return
    \/ trigger_error

SpecPlugins == Init /\ [][NextPlugins]_vars

\* the scheduler runs every started thread and every child, and the caller's
\* thread goes on inside a stop_execution call it has begun; calls of
\* execute_python and stop_execution are the user's and need not happen
StopStep ==
    \/ stop_terminate
    \/ stop_wait_eval
    \/ stop_wait_return
    \/ stop_wait_timeout
    \/ stop_kill
    \/ stop_finish

FairExec ==
    /\ SpecExec
    /\ WF_vars(StopStep)
    /\ \A w \in Threads : WF_vars(ThreadStep(w))
    /\ \A c \in Threads : WF_vars(ChildStep(c))

(* ======================= properties of CodeExecutor ===================== *)
Alive(c)  == ch[c].st = "running"
Active(w) == wk[w].pc \notin {"unborn", "done"}
BusyEv    == Ev("busy", Main, None, 0)

\* C1: single-flight: at any time at most one child process is alive and at
\* most one thread of _execute_python_thread is still active.
C1_SingleFlight ==
    /\ Cardinality({c \in Threads : Alive(c)}) <= 1
    /\ Cardinality({w \in Threads : Active(w)}) <= 1

\* C2: execute_python called while is_running holds is rejected at once: the
\* error callback gets the busy message and nothing else is emitted (no
\* started), no thread and no child is created, and is_running and process
\* keep their values.
C2_BusyRejected ==
    [][(last'.op = "execute" /\ is_running)
        => /\ last'.ev = <<BusyEv>>
           /\ UNCHANGED <<is_running, process, wk, ch, mainpc, nthreads, nfin>>]_vars

\* C2 witness: a call has just been rejected while a child was running
C2_Witness ==
    /\ last.op = "execute"
    /\ last.ev = <<BusyEv>>
    /\ is_running
    /\ \E c \in Threads : Alive(c) /\ process = c

\* C3: every accepted execute_python eventually results in exactly one
\* execution_finished emission by its thread, and never in more than one.
C3_ExactlyOneFinished ==
    \A w \in Threads :
        /\ [](nfin[w] <= 1)
        /\ (wk[w].pc = "header") ~> (nfin[w] = 1)

\* the engine has been Idle at some moment since execution w was accepted:
\* is_running is false, or a later execution has been accepted since
IdleSince(w) == w <= nthreads /\ (nthreads > w \/ ~is_running)

\* the step is one of thread w: it emits, or moves the thread on
StepOf(w) == wk'[w] # wk[w]

\* C4: the engine becomes Idle only after the execution's finished callback
\* has fired, and once it has become Idle the execution's thread emits
\* nothing and writes no state any more.
C4_IdleIsLast ==
    /\ [](\A w \in Threads : IdleSince(w) => nfin[w] >= 1)
    /\ [][\A w \in Threads : IdleSince(w) => ~StepOf(w)]_vars

\* C5: stop_execution called at a moment at which is_running holds cancels
\* the execution: the call does not return at once leaving it running.
C5_StopCancels ==
    [][(last'.op = "stop" /\ is_running) => mainpc'.pc = "terminate"]_vars

\* C6: the forced kill never comes before the graceful request to the same
\* child, and once the bounded wait has expired with the child still running
\* the kill is issued.
C6_GracefulThenKill ==
    [][/\ (last'.sig # <<>> /\ last'.sig[1] = "kill") => ch[last'.sig[2]].tsent
       /\ (mainpc.pc = "kill" /\ mainpc'.pc # "kill") => last'.op = "kill"]_vars

\* thread w's Popen raised: no child was started for it
SpawnFailed(w) == wk[w].pc \notin {"unborn", "header"} /\ ch[w].st = "none"

Held(c) == {wk[w].line : w \in {x \in Threads : wk[x].pc = "emit_line" /\ wk[x].h = c}}

\* the standard output of child c has been read to end-of-file and delivered
Drained(c) == ch[c].st = "exited" /\ ch[c].outp = <<>> /\ Held(c) = {}

\* C8: the lines of a child reach the output callback in the order the child
\* wrote them; its standard error reaches the error callback only once its
\* standard output has been read to end-of-file and delivered; the finished
\* callback for it comes after both.
C8_StreamOrder ==
    [][\A i \in 1..Len(last'.ev) :
        LET e == last'.ev[i] IN
        /\ e.k = "line" => \A v \in Held(e.c) : v >= e.v
        /\ e.k = "stderr" => Drained(e.c)
        /\ (e.k = "finished" /\ e.c # None)
              => /\ Drained(e.c)
                 /\ ch[e.c].errp = 0
                 /\ \A x \in Threads : ~(wk[x].pc = "read_stderr" /\ wk[x].h = e.c)]_vars

\* C9: stop_execution called while the engine is Idle emits nothing, sends no
\* signal and changes nothing, however often it is repeated.
C9_StopIdleNoop ==
    [][(last'.op = "stop" /\ ~is_running)
        => /\ last'.ev = <<>>
           /\ last'.sig = <<>>
           /\ ~last'.exc
           /\ UNCHANGED <<is_running, process, wk, ch, mainpc, nthreads, nfin>>]_vars

\* C9 witness: stop_execution has just returned from a call made while Idle,
\* with self.process still naming the child of the execution that ended
C9_Witness ==
    /\ last.op = "stop"
    /\ ~is_running
    /\ mainpc.pc = "idle"
    /\ process # None

(* ======================= properties of EventSystem ====================== *)

\* C10: an emit during which the list is not changed invokes the listeners
\* then subscribed to the event type, each once, in descending priority
\* order, and listeners of equal priority in the order of their subscription.
C10_PriorityOrder ==
    (ret.op = "emit" /\ ~ret.dirty) =>
        /\ ret.called = Ids(listeners[ret.t])
        /\ \A i, j \in 1..Len(ret.called) :
             i < j =>
               LET a == handles[ret.called[i]]
                   b == handles[ret.called[j]] IN
               \/ a.priority > b.priority
               \/ a.priority = b.priority /\ a.id < b.id

\* C10 witness: an emit has called three listeners: the one subscribed last
\* first, then two of equal priority
C10_Witness ==
    /\ ret.op = "emit" /\ ~ret.dirty
    /\ Len(ret.called) = 3
    /\ ret.called[1] = 3
    /\ handles[ret.called[2]].priority = handles[ret.called[3]].priority

\* C11: a listener whose call fails (the callback raises, or is not callable)
\* does not stop the dispatch: the loop goes on to the next listener, emit
\* returns normally, and an emit during which the list is not changed has
\* called every listener of the event type whichever of them failed.
C11_ErrorIsolation ==
    /\ [][(ret'.op = "emit_call" /\ ~ret'.ok)
            => /\ em'.active
               /\ em'.idx = em.idx + 1
               /\ em'.called = Append(em.called, ret'.called[1])]_vars
    /\ [](ret.op = "emit" => ret.ok)
    /\ []((ret.op = "emit" /\ ~ret.dirty) => Len(ret.called) = Len(listeners[ret.t]))

\* C11 witness: emit has returned after calling two listeners, the first of
\* which failed
C11_Witness ==
    /\ ret.op = "emit" /\ ret.ok /\ ~ret.dirty
    /\ Len(ret.called) = 2
    /\ ret.results = <<ret.called[2]>>

\* C12: emit returns the results of exactly the calls that did not fail, in
\* call order: a call that returns appends its value, a call that fails
\* leaves the results as they are, and emit returns the list so built.
C12_ResultsOfSuccessfulCalls ==
    /\ [][ret'.op = "emit_call"
            => em'.results = IF ret'.ok THEN Append(em.results, ret'.called[1])
                                        ELSE em.results]_vars
    /\ [][ret'.op = "emit" => (ret'.results = em.results /\ ret'.called = em.called)]_vars
    /\ [](ret.op = "emit" => Len(ret.results) <= Len(ret.called))

\* C12 witness: of three listeners called the second failed, and emit
\* returned the results of the first and the third
C12_Witness ==
    /\ ret.op = "emit"
    /\ Len(ret.called) = 3
    /\ ret.results = <<ret.called[1], ret.called[3]>>

\* number of positions of the sequence s that hold x
Count(s, x) == Cardinality({i \in 1..Len(s) : s[i] = x})

\* C13: an emit(t, args) passes exactly args to every listener it calls and
\* calls only listeners subscribed to t; an emit during which the list is not
\* changed has called every listener subscribed to t exactly once.
C13_EachListenerOnce ==
    /\ [][ret'.op = "emit_begin"
            => /\ em'.t = ret'.t
               /\ [type |-> em'.t, args |-> em'.args] = event_history'[Len(event_history')]]_vars
    /\ [][ret'.op = "emit_call"
            => /\ ret'.results = <<em.args>>
               /\ handles[ret'.called[1]].event_type = em.t]_vars
    /\ []((ret.op = "emit" /\ ~ret.dirty)
            => \A id \in 1..Len(handles) :
                 Count(ret.called, id) =
                    IF InList(listeners[ret.t], handles[id]) THEN 1 ELSE 0)

\* C13 witness: an emit with argument 1 has called the two listeners of its
\* type once each while the other type has a listener too
C13_Witness ==
    /\ ret.op = "emit" /\ ~ret.dirty
    /\ Len(ret.called) = 2
    /\ ret.called[1] # ret.called[2]
    /\ \E t \in EventTypes : t # ret.t /\ listeners[t] # <<>>
    /\ event_history # <<>>
    /\ event_history[Len(event_history)] = [type |-> ret.t, args |-> 1]

\* C14: an emit calls only listeners that were subscribed when it began: a
\* listener subscribed during the emit is not called by it.
C14_SnapshotDispatch ==
    [][ret'.op = "emit_call" => \E i \in 1..Len(em.snap) : em.snap[i] = ret'.called[1]]_vars

\* the last n elements of the sequence s (all of s when it is shorter)
LastN(s, n) == IF Len(s) > n THEN SubSeq(s, Len(s) - n + 1, Len(s)) ELSE s

\* C15: the history never holds more than max_history records; every emit
\* appends exactly one record, whether or not a listener exists, and the
\* history afterwards is the max_history most recent records, oldest first;
\* nothing else changes the history.
C15_HistoryBound ==
    /\ [](Len(get_event_history(AnyType)) <= max_history)
    /\ [][ret'.op = "emit_begin"
            => LET e == [type |-> em'.t, args |-> em'.args]
                   all == Append(get_event_history(AnyType), e) IN
               /\ event_history' = LastN(all, max_history)
               /\ ret'.results \o event_history' = all]_vars
    /\ [][event_history' # event_history => ret'.op = "emit_begin"]_vars

\* C15 witness: an emit without listeners has just pushed the oldest record
\* out of a full history
C15_Witness ==
    /\ ret.op = "emit_begin"
    /\ Len(ret.results) = 1
    /\ listeners[ret.t] = <<>>
    /\ Len(event_history) = max_history
    /\ ret.results[1] # event_history[1]

\* C16: unsubscribe of a listener that is subscribed returns true and removes
\* exactly that listener, all others staying in place and in order;
\* unsubscribe of a listener that is not subscribed (any more) returns false
\* and changes nothing; a listener that is not subscribed is never called.
C16_Unsubscribe ==
    /\ [][ret'.op = "unsubscribe"
            => LET l == handles[ret'.called[1]]
                   t == l.event_type IN
               IF InList(listeners[t], l)
               THEN /\ ret'.ok
                    /\ listeners'[t] = SelectSeq(listeners[t], LAMBDA x : x # l)
                    /\ \A u \in EventTypes \ {t} : listeners'[u] = listeners[u]
                    /\ UNCHANGED <<event_history, handles>>
               ELSE /\ ~ret'.ok
                    /\ UNCHANGED <<listeners, event_history, handles, em>>]_vars
    /\ [][ret'.op = "emit_call"
            => InList(listeners[em.t], handles[ret'.called[1]])]_vars

\* C16 witness: the second unsubscribe of listener 2 has returned false, and
\* the two other listeners, of its type, are in place
C16_Witness ==
    /\ ret.op = "unsubscribe" /\ ~ret.ok
    /\ ret.called = <<2>>
    /\ Ids(listeners[ret.t]) = <<1, 3>>
    /\ handles[1].priority = handles[2].priority

(* ====================== properties of PluginManager ===================== *)
\* the callbacks of the enabled plugins among entries for hook h, plugin by plugin
RECURSIVE PluginCalls(_, _)
PluginCalls(entries, h) ==
    IF entries = <<>> THEN <<>>
    ELSE LET i == Head(entries).inst IN
         (IF insts[i].enabled THEN insts[i].hooks[h] ELSE <<>>) \o PluginCalls(Tail(entries), h)

\* the calls a trigger of hook h is to make: the global callbacks of h, then
\* those of each enabled plugin in registry order
Expected(h) == hooks[h] \o PluginCalls(Live(plugins), h)

\* the callbacks that initialize() running body registers for hook h, in order
OfBody(i, body, h) ==
    LET sel == SelectSeq(body, LAMBDA r : r.hook = h) IN
    [k \in 1..Len(sel) |-> Callback(i, sel[k].fn)]

\* the plugin objects that are registered
RegisteredInsts == {plugins[j].inst : j \in {k \in 1..Len(plugins) : plugins[k] # Tomb}}

\* C17: a trigger_hook during which nothing is changed calls the global
\* callbacks of the hook in registration order, then the callbacks for the
\* hook of each enabled plugin in registry order, each plugin's in
\* registration order, and none for another hook; registration appends
\* without deduplication, so a callback registered twice is called twice.
C17_TriggerOrder ==
    /\ []((pret.op = "trigger" /\ ~pret.dirty) => pret.called = Expected(pret.x))
    /\ [][pret'.op = "register"
            => /\ hooks'[pret'.x] = Append(hooks[pret'.x], pret'.called[1])
               /\ \A h \in Hooks \ {pret'.x} : hooks'[h] = hooks[h]]_vars
    /\ [](\A i \in RegisteredInsts :
            \E f \in PluginFiles :
                /\ f.name = insts[i].name
                /\ \A h \in Hooks : insts[i].hooks[h] = OfBody(i, f.body, h))

\* C17 witness: a trigger has called a callback of the host, then the one
\* callback of a first plugin, then twice the callback a second plugin
\* registered twice, while the other hook has a callback too
C17_Witness ==
    /\ pret.op = "trigger" /\ ~pret.dirty /\ ~pret.exc
    /\ Len(pret.called) = 4
    /\ pret.called[1].owner = Host
    /\ pret.called[2].owner \notin {Host, pret.called[3].owner}
    /\ pret.called[3] = pret.called[4]
    /\ \E h \in Hooks \ {pret.x} : hooks[h] # <<>>

\* C18: a callback that raises, global or of a plugin, does not stop the
\* trigger: the loops go on, the results are those of the calls that did not
\* fail, in call order, and a trigger_hook during which nothing is changed
\* returns normally having made every call it is to make.
C18_HookErrorIsolation ==
    /\ [][pret'.op = "trigger_call"
            => /\ tr'.active
               /\ tr'.called = Append(tr.called, pret'.called[1])
               /\ tr'.results = IF pret'.ok THEN Append(tr.results, pret'.called[1])
                                           ELSE tr.results]_vars
    /\ [][(pret'.op = "trigger" /\ ~pret'.exc) => pret'.results = tr.results]_vars
    /\ []((pret.op = "trigger" /\ ~pret.dirty)
            => /\ pret.ok /\ ~pret.exc
               /\ Len(pret.called) = Len(Expected(pret.x)))

\* C18 witness: the first callback, a global one, raised; two more callbacks,
\* the last one a plugin's, were called, and the trigger returned their results
C18_Witness ==
    /\ pret.op = "trigger" /\ pret.ok /\ ~pret.exc /\ ~pret.dirty
    /\ Len(pret.called) = 3
    /\ pret.called[1].owner = Host
    /\ pret.called[3].owner # Host
    /\ pret.results = Tail(pret.called)

\* C19: trigger_hook calls no callback registered by a plugin that is
\* disabled at the time of the call, whether the plugin registered it through
\* its own register_hook or through the manager's.
C19_DisabledSkipped ==
    [][pret'.op = "trigger_call"
        => LET cb == pret'.called[1] IN
           cb.owner \in RegisteredInsts => insts[cb.owner].enabled]_vars

\* C20: unload_plugin of a registered plugin whose shutdown() returns false
\* or raises returns false and leaves the registry, the enabled flags and all
\* hook callbacks as they were; unload_plugin of an unknown name returns
\* false and changes nothing.
C20_FailedUnload ==
    [][(pret'.op = "unload" /\ pret'.results # <<"ok">>)
        => /\ ~pret'.ok /\ ~pret'.exc
           /\ UNCHANGED <<plugins, hooks>>
           /\ Len(insts') = Len(insts)
           /\ \A i \in 1..Len(insts) :
                /\ insts'[i].name = insts[i].name
                /\ insts'[i].enabled = insts[i].enabled
                /\ insts'[i].hooks = insts[i].hooks
           /\ pret'.inst = None => UNCHANGED insts]_vars

\* C20 witness: shutdown() of a registered, enabled plugin has just raised;
\* the plugin is in the registry with its callbacks
C20_Witness ==
    /\ pret.op = "unload" /\ ~pret.ok
    /\ pret.results = <<"raise">>
    /\ get_plugin(pret.x) = pret.inst
    /\ insts[pret.inst].enabled
    /\ insts[pret.inst].hooks["ON_STARTUP"] # <<>>

\* C21: a load_plugin that fails (file missing, module not resolvable, no
\* implementation, initialize() returns false or raises) returns no plugin,
\* raises nothing, and leaves the registry and the global hook map exactly as
\* they were, so that no callback of the plugin is there for trigger_hook to
\* call.
C21_FailedLoadLeavesNoTrace ==
    [][(pret'.op = "load" /\ ~pret'.ok)
        => /\ ~pret'.exc
           /\ pret'.inst = None
           /\ UNCHANGED <<plugins, hooks>>]_vars

\* C22: load_plugin fails and registers nothing when the module exposes no
\* subclass of BasePlugin, and also when it exposes more than one: it never
\* takes one of several.
C22_OneImplementation ==
    [][(pret'.op = "load" /\ pret'.results # <<>> /\ pret'.results # <<1>>)
        => /\ ~pret'.ok
           /\ UNCHANGED <<plugins, hooks, insts>>]_vars

\* C23: enable_plugin and disable_plugin of a registered plugin return true
\* and set that plugin's enabled flag, whatever it was (so a repeated call
\* changes nothing more); they create no plugin object, call no shutdown(),
\* and leave the registry's membership and order, the other plugins' flags
\* and every hook registration as they were. With a name that is not
\* registered they return false and change nothing.
C23_EnableDisableFrame ==
    [][pret'.op \in {"enable", "disable"}
        => LET i == get_plugin(pret'.x) IN
           /\ ~pret'.exc
           /\ UNCHANGED <<plugins, hooks>>
           /\ IF i # None
              THEN /\ pret'.ok
                   /\ insts' = [insts EXCEPT ![i].enabled = (pret'.op = "enable")]
              ELSE /\ ~pret'.ok
                   /\ UNCHANGED insts]_vars

\* C23 witness: a registered plugin has just been disabled while another
\* registered plugin, with callbacks of its own, is still enabled
C23_Witness ==
    /\ pret.op = "disable" /\ pret.ok
    /\ get_plugin(pret.x) = pret.inst
    /\ ~insts[pret.inst].enabled
    /\ \E j \in RegisteredInsts \ {pret.inst} :
            insts[j].enabled /\ insts[j].hooks["ON_STARTUP"] # <<>>

\* C24: a plugin object leaves the registry only through unload_plugin of
\* its name, and only when its shutdown() was called, once for that removal,
\* and returned true; no other operation drops a registered object.
C24_LeavesOnlyByUnload ==
    [][\A i \in RegisteredInsts :
        i \notin RegisteredInsts'
            => /\ pret'.op = "unload" /\ pret'.ok
               /\ pret'.inst = i
               /\ pret'.results = <<"ok">>
               /\ insts'[i].nshut = insts[i].nshut + 1]_vars

\* C25: a successful load_plugin under a name that is registered leaves one
\* entry for the name, in the slot it had, holding the new object with
\* enabled true whatever the flag of the previous object was; the previous
\* object's shutdown() is not called; and a later trigger_hook calls
\* per-plugin callbacks of registered objects only, so the new object's and
\* none of the previous one's.
C25_ReloadReplaces ==
    /\ [][(pret'.op = "load" /\ pret'.ok /\ Slot(pret'.x) # 0)
            => LET old == get_plugin(pret'.x)
                   new == pret'.inst IN
               /\ new \notin 1..Len(insts)
               /\ plugins' = [plugins EXCEPT ![Slot(pret'.x)].inst = new]
               /\ Cardinality({j \in 1..Len(plugins') : plugins'[j].name = pret'.x}) = 1
               /\ insts'[new].enabled
               /\ insts'[new].nshut = 0
               /\ insts'[old] = insts[old]]_vars
    /\ []((pret.op = "trigger" /\ ~pret.dirty)
            => \A k \in 1..Len(pret.called) :
                 LET cb == pret.called[k] IN
                 (cb.owner # Host /\ cb.fn # 0)
                    => /\ cb.owner \in RegisteredInsts
                       /\ cb \in {insts[cb.owner].hooks[pret.x][n] :
                                     n \in 1..Len(insts[cb.owner].hooks[pret.x])})

\* C25 witness: a plugin was loaded and disabled, a second object was loaded
\* under its name, and a trigger has then called a callback of the second
\* object and none of the first, whose shutdown() was never called
C25_Witness ==
    /\ pret.op = "trigger" /\ ~pret.dirty /\ pret.ok
    /\ Len(insts) = 2
    /\ insts[1].name = insts[2].name
    /\ ~insts[1].enabled /\ insts[1].nshut = 0
    /\ insts[1].hooks[pret.x] # <<>>
    /\ RegisteredInsts = {2} /\ insts[2].enabled
    /\ \E k \in 1..Len(pret.called) : pret.called[k].owner = 2 /\ pret.called[k].fn # 0
    /\ \A k \in 1..Len(pret.called) : pret.called[k].owner # 1

(* ================ properties of CodeExecutor, continued ================= *)
\* child c is blocked writing to its full stderr pipe while the thread that
\* reads its output is blocked in readline on its empty stdout pipe
MutualWait(c) ==
    /\ ch[c].st = "running"
    /\ ch[c].pend = "e"
    /\ ch[c].outp = <<>>
    /\ \E w \in Threads : wk[w].pc = "readline" /\ wk[w].h = c

\* C26: with pipes of bounded capacity, the thread and the child never wait
\* on each other forever, whatever the child writes to stdout and stderr and
\* in whatever order: a child blocked on a full pipe is eventually relieved.
C26_NoMutualWait ==
    \A c \in Threads : MutualWait(c) ~> ~MutualWait(c)

\* C27: for a thread whose child was started, whether the child exits on its
\* own, after the graceful request or after the kill, execution_finished
\* carries the exit status of that child, and the error callback receives
\* nothing from the thread but what the child wrote to stderr: there is no
\* 'Execution error' and no status -1.
C27_ActualExitStatus ==
    [][\A k \in 1..Len(last'.ev) :
        LET e == last'.ev[k] IN
        (e.by # Main /\ ch[e.by].st # "none")
            => /\ IsFinished(e) => /\ e.c = e.by
                                  /\ ch[e.by].st = "exited"
                                  /\ e.v = ch[e.by].code
               /\ IsError(e) => e.k = "stderr" /\ e.c = e.by]_vars

(* ================= properties of EventSystem, continued ================= *)
\* the elements of the sequence s
Elems(s) == {s[k] : k \in 1..Len(s)}

\* C28: when listeners of the type are unsubscribed during an emit and none
\* subscribed during it is in the list, every listener that was subscribed
\* when the emit began and still is when it returns has been called exactly
\* once by it: none is skipped and none called twice.
C28_UnsubscribeDuringEmit ==
    [][(ret'.op = "emit" /\ Elems(Ids(listeners[em.t])) \subseteq Elems(em.snap))
        => \A id \in Elems(Ids(listeners[em.t])) : Count(ret'.called, id) = 1]_vars

(* ================ properties of PluginManager, continued ================ *)
\* C29: whatever the callbacks do during the dispatch (load_plugin,
\* unload_plugin, register_hook, enable_plugin or disable_plugin called from
\* a callback), trigger_hook returns its results and no exception leaves it.
C29_ReentrantTriggerReturns ==
    [][pret'.op = "trigger" => (pret'.ok /\ ~pret'.exc)]_vars

(* ========================= properties of dispatch ======================= *)
\* C30: an emit that began with listeners subscribed to its type calls at
\* most as many listeners as were subscribed then, even when listeners
\* subscribe more during the emit.
C30_BoundedDispatch ==
    [][(ret'.op = "emit" /\ em.snap # <<>>) => Len(ret'.called) <= Len(em.snap)]_vars

====
